---- MODULE Spec2Model ----
(***************************************************************************)
(* The relational schema of backend/app/models.py (SQLModel): five tables  *)
(* (user, item, beverage, order, orderdetail), their Create / Update /     *)
(* Public shapes, and the store that holds the rows under the declared     *)
(* column constraints (NOT NULL, UNIQUE, FOREIGN KEY) and delete cascades. *)
(*                                                                         *)
(* Values.  A JSON value or a column value is a sequence of length 0 or 1: *)
(* <<>> is null / NULL / None and <<v>> is the value v.  A payload is a    *)
(* function from the field names it supplies to such values, so            *)
(* DOMAIN p is pydantic's model_fields_set.  A Decimal is <<coef, places>> *)
(* and stands for coef * 10^(-places); a stored NUMERIC(_, s) column holds *)
(* the integer number of 10^(-s) units.                                    *)
(***************************************************************************)
EXTENDS Integers, Sequences, FiniteSets, TLC

VARIABLES user, item, beverage, order, orderdetail, request, response, resource

vars == <<user, item, beverage, order, orderdetail, request, response, resource>>

tables == <<user, item, beverage, order, orderdetail>>

\* --------------------------------------------------------------- bounds

MaxUsers == 2
MaxItems == 1
MaxBeverages == 1
MaxOrders == 1
MaxDetails == 1

\* ------------------------------------------------------ schema constants

PasswordMinLen == 8
PasswordMaxLen == 40
StrMaxLen == 255
StatusMaxLen == 50
TitleMinLen == 1
NameMinLen == 1
InventoryMin == 0
QuantityMin == 1
BeveragePriceDigits == 5
BeveragePricePlaces == 3
MoneyDigits == 10
MoneyPlaces == 2

\* --------------------------------------------------------------- values

Null == <<>>

Some(v) == <<v>>

IsNull(x) == Len(x) = 0

Has(p, f) == f \in DOMAIN p

\* The value a validated shape holds for field f: the supplied one, else the
\* field's declared default.
Get(p, f, default) == IF Has(p, f) THEN p[f] ELSE default

Restrict(p, S) == [f \in S |-> p[f]]

\* str with min_length / max_length.
StrOK(x, lo, hi) == ~IsNull(x) /\ Len(x[1]) >= lo /\ Len(x[1]) <= hi

\* str | None with min_length / max_length.
OptStrOK(x, lo, hi) == IsNull(x) \/ StrOK(x, lo, hi)

\* bool.
BoolOK(x) == ~IsNull(x) /\ x[1] \in BOOLEAN

\* int with ge.
IntOK(x, lo) == ~IsNull(x) /\ x[1] >= lo

\* int | None with ge.
OptIntOK(x, lo) == IsNull(x) \/ IntOK(x, lo)

\* uuid.UUID.
UuidOK(x) == ~IsNull(x)

\* pydantic's EmailStr: the addresses the email-validator library accepts.
MalformedEmails == {"ann.x.io"}

EmailOK(x) == ~IsNull(x) /\ x[1] \notin MalformedEmails /\ Len(x[1]) <= StrMaxLen

OptEmailOK(x) == IsNull(x) \/ EmailOK(x)

RECURSIVE NumDigits(_)
\* len(Decimal.as_tuple().digits) of a coefficient.
NumDigits(n) ==
    LET a == IF n < 0 THEN -n ELSE n
    IN IF a < 10 THEN 1 ELSE 1 + NumDigits(a \div 10)

RECURSIVE Pow10(_)
Pow10(k) == IF k = 0 THEN 1 ELSE 10 * Pow10(k - 1)

\* Decimal with max_digits / decimal_places: pydantic counts the digits of the
\* coefficient and the decimal places; the sign is not looked at.
DecimalOK(x, maxDigits, places) ==
    /\ ~IsNull(x)
    /\ LET coef == x[1][1]
           decimals == x[1][2]
           digits == IF decimals > NumDigits(coef) THEN decimals ELSE NumDigits(coef)
       IN /\ digits <= maxDigits
          /\ decimals <= places
          /\ digits - decimals <= maxDigits - places

OptDecimalOK(x, maxDigits, places) == IsNull(x) \/ DecimalOK(x, maxDigits, places)

\* The NUMERIC(_, places) column value of a validated Decimal.
Stored(x, places) ==
    IF IsNull(x) THEN Null ELSE Some(x[1][1] * Pow10(places - x[1][2]))

\* ---------------------------------------------------------------- shapes
\* Each shape: the fields it declares, the fields without a default (required),
\* the defaults of the others, and the constraint of each field.

UserBaseFields == {"email", "is_active", "is_superuser", "full_name"}

UserBaseDefaults == [is_active |-> Some(TRUE), is_superuser |-> Some(FALSE), full_name |-> Null]

UserBaseFieldOK(f, x) ==
    CASE f = "email" -> EmailOK(x)
      [] f = "is_active" -> BoolOK(x)
      [] f = "is_superuser" -> BoolOK(x)
      [] f = "full_name" -> OptStrOK(x, 0, StrMaxLen)

UserCreateFields == UserBaseFields \cup {"password"}

UserCreateRequired == {"email", "password"}

UserCreateFieldOK(f, x) ==
    IF f = "password" THEN StrOK(x, PasswordMinLen, PasswordMaxLen) ELSE UserBaseFieldOK(f, x)

UserUpdateFields == UserBaseFields \cup {"password"}

UserUpdateRequired == {}

UserUpdateFieldOK(f, x) ==
    CASE f = "email" -> OptEmailOK(x)
      [] f = "password" -> OptStrOK(x, PasswordMinLen, PasswordMaxLen)
      [] OTHER -> UserBaseFieldOK(f, x)

UserUpdateDefaults ==
    [email |-> Null, password |-> Null, is_active |-> Some(TRUE),
     is_superuser |-> Some(FALSE), full_name |-> Null]

UserFields == UserBaseFields \cup {"hashed_password"}

\* UserPublic declared on the table class instead of UserBase.
UserPublicFieldsOfTable == UserFields \cup {"id"}

UserPublicFields == UserBaseFields \cup {"id"}

ItemBaseFields == {"title", "description"}

ItemBaseDefaults == [description |-> Null]

ItemBaseFieldOK(f, x) ==
    CASE f = "title" -> StrOK(x, TitleMinLen, StrMaxLen)
      [] f = "description" -> OptStrOK(x, 0, StrMaxLen)

ItemCreateRequired == {"title"}

\* ItemCreate with the table class's title, which has no min_length.
ItemCreateFieldOKAnyTitle(f, x) ==
    IF f = "title" THEN StrOK(x, 0, StrMaxLen) ELSE ItemBaseFieldOK(f, x)

ItemCreateFieldOK(f, x) == ItemBaseFieldOK(f, x)

ItemUpdateRequired == {}

ItemUpdateFieldOK(f, x) ==
    IF f = "title" THEN OptStrOK(x, TitleMinLen, StrMaxLen) ELSE ItemBaseFieldOK(f, x)

ItemUpdateDefaults == [title |-> Null, description |-> Null]

ItemFields == ItemBaseFields \cup {"owner_id"}

BeverageBaseFields == {"name", "description", "price", "inventory"}

BeverageBaseDefaults == [description |-> Null, price |-> Some(<<0, 0>>)]

BeverageBaseFieldOK(f, x) ==
    CASE f = "name" -> StrOK(x, NameMinLen, StrMaxLen)
      [] f = "description" -> OptStrOK(x, 0, StrMaxLen)
      [] f = "price" -> DecimalOK(x, BeveragePriceDigits, BeveragePricePlaces)
      [] f = "inventory" -> IntOK(x, InventoryMin)

BeverageCreateRequired == {"name", "inventory"}

BeverageCreateFieldOK(f, x) == BeverageBaseFieldOK(f, x)

BeverageUpdateRequired == {}

\* BeverageUpdate with inventory: int | None = None, without ge.
BeverageUpdateFieldOKAnyInventory(f, x) ==
    CASE f = "name" -> OptStrOK(x, NameMinLen, StrMaxLen)
      [] f = "price" -> DecimalOK(x, BeveragePriceDigits, BeveragePricePlaces)
      [] f = "inventory" -> TRUE
      [] OTHER -> BeverageBaseFieldOK(f, x)

BeverageUpdateFieldOK(f, x) ==
    CASE f = "name" -> OptStrOK(x, NameMinLen, StrMaxLen)
      [] f = "price" -> DecimalOK(x, BeveragePriceDigits, BeveragePricePlaces)
      [] f = "inventory" -> OptIntOK(x, InventoryMin)
      [] OTHER -> BeverageBaseFieldOK(f, x)

BeverageUpdateDefaults ==
    [name |-> Null, description |-> Null, price |-> Some(<<0, 0>>), inventory |-> Null]

OrderBaseFields == {"user_id", "total_price", "status"}

OrderBaseDefaults == [total_price |-> Some(<<0, 0>>), status |-> Some("pending")]

OrderBaseFieldOK(f, x) ==
    CASE f = "user_id" -> UuidOK(x)
      [] f = "total_price" -> DecimalOK(x, MoneyDigits, MoneyPlaces)
      [] f = "status" -> StrOK(x, 0, StatusMaxLen)

OrderCreateRequired == {"user_id"}

OrderCreateFieldOK(f, x) == OrderBaseFieldOK(f, x)

\* OrderUpdate overrides status alone: user_id keeps OrderBase's declaration,
\* which has no default.
OrderUpdateRequired == {"user_id"}

OrderUpdateFieldOK(f, x) ==
    IF f = "status" THEN OptStrOK(x, 0, StatusMaxLen) ELSE OrderBaseFieldOK(f, x)

OrderUpdateDefaults == [total_price |-> Some(<<0, 0>>), status |-> Null]

OrderDetailBaseFields == {"order_id", "item_id", "quantity", "price"}

OrderDetailBaseDefaults == [price |-> Some(<<0, 0>>)]

OrderDetailBaseFieldOK(f, x) ==
    CASE f = "order_id" -> UuidOK(x)
      [] f = "item_id" -> UuidOK(x)
      [] f = "quantity" -> IntOK(x, QuantityMin)
      [] f = "price" -> DecimalOK(x, MoneyDigits, MoneyPlaces)

OrderDetailCreateRequired == {"order_id", "item_id", "quantity"}

OrderDetailCreateFieldOK(f, x) == OrderDetailBaseFieldOK(f, x)

\* OrderDetailUpdate overrides quantity and price: order_id and item_id keep
\* OrderDetailBase's declarations, which have no default.
OrderDetailUpdateRequired == {"order_id", "item_id"}

\* OrderDetailUpdate with quantity ge=0.
OrderDetailUpdateFieldOKZeroQuantity(f, x) ==
    CASE f = "quantity" -> OptIntOK(x, 0)
      [] f = "price" -> OptDecimalOK(x, MoneyDigits, MoneyPlaces)
      [] OTHER -> OrderDetailBaseFieldOK(f, x)

OrderDetailUpdateFieldOK(f, x) ==
    CASE f = "quantity" -> OptIntOK(x, QuantityMin)
      [] f = "price" -> OptDecimalOK(x, MoneyDigits, MoneyPlaces)
      [] OTHER -> OrderDetailBaseFieldOK(f, x)

OrderDetailUpdateDefaults == [quantity |-> Null, price |-> Null]

\* model_validate of a payload against a shape.
UserCreateValid(p) ==
    /\ UserCreateRequired \subseteq DOMAIN p
    /\ \A f \in DOMAIN p \cap UserCreateFields : UserCreateFieldOK(f, p[f])

UserUpdateValid(p) ==
    /\ UserUpdateRequired \subseteq DOMAIN p
    /\ \A f \in DOMAIN p \cap UserUpdateFields : UserUpdateFieldOK(f, p[f])

ItemCreateValid(p) ==
    /\ ItemCreateRequired \subseteq DOMAIN p
    /\ \A f \in DOMAIN p \cap ItemBaseFields : ItemCreateFieldOK(f, p[f])

ItemUpdateValid(p) ==
    /\ ItemUpdateRequired \subseteq DOMAIN p
    /\ \A f \in DOMAIN p \cap ItemBaseFields : ItemUpdateFieldOK(f, p[f])

BeverageCreateValid(p) ==
    /\ BeverageCreateRequired \subseteq DOMAIN p
    /\ \A f \in DOMAIN p \cap BeverageBaseFields : BeverageCreateFieldOK(f, p[f])

BeverageUpdateValid(p) ==
    /\ BeverageUpdateRequired \subseteq DOMAIN p
    /\ \A f \in DOMAIN p \cap BeverageBaseFields : BeverageUpdateFieldOK(f, p[f])

OrderCreateValid(p) ==
    /\ OrderCreateRequired \subseteq DOMAIN p
    /\ \A f \in DOMAIN p \cap OrderBaseFields : OrderCreateFieldOK(f, p[f])

OrderUpdateValid(p) ==
    /\ OrderUpdateRequired \subseteq DOMAIN p
    /\ \A f \in DOMAIN p \cap OrderBaseFields : OrderUpdateFieldOK(f, p[f])

OrderDetailCreateValid(p) ==
    /\ OrderDetailCreateRequired \subseteq DOMAIN p
    /\ \A f \in DOMAIN p \cap OrderDetailBaseFields : OrderDetailCreateFieldOK(f, p[f])

OrderDetailUpdateValid(p) ==
    /\ OrderDetailUpdateRequired \subseteq DOMAIN p
    /\ \A f \in DOMAIN p \cap OrderDetailBaseFields : OrderDetailUpdateFieldOK(f, p[f])

\* ---------------------------------------------------------------- tables

TableNames == {"user", "item", "beverage", "order", "orderdetail"}

\* The columns whose annotation admits None; every other column is NOT NULL.
Nullable ==
    [user |-> {"full_name"}, item |-> {"description"}, beverage |-> {"description"},
     order |-> {}, orderdetail |-> {}]

\* email without unique=True.
UniqueColumnsNone ==
    [user |-> {}, item |-> {}, beverage |-> {}, order |-> {}, orderdetail |-> {}]

\* Field(unique=True).
UniqueColumns ==
    [user |-> {"email"}, item |-> {}, beverage |-> {}, order |-> {}, orderdetail |-> {}]

\* item_id without foreign_key.
ForeignKeysWithoutItemRef ==
    {<<"item", "owner_id", "user">>, <<"order", "user_id", "user">>,
     <<"orderdetail", "order_id", "order">>}

\* Field(foreign_key="<ref>.id"): <<table, column, ref>>.
ForeignKeys ==
    {<<"item", "owner_id", "user">>, <<"order", "user_id", "user">>,
     <<"orderdetail", "order_id", "order">>, <<"orderdetail", "item_id", "item">>}

\* Relationship(cascade_delete=True) and ondelete="CASCADE": <<parent, child,
\* column>>.  A foreign key that is not listed keeps the default NO ACTION.
CascadeDelete ==
    {<<"user", "item", "owner_id">>, <<"user", "order", "user_id">>,
     <<"order", "orderdetail", "order_id">>}

\* Decimal columns and the scale of each.
DecimalColumns ==
    [user |-> <<>>, item |-> <<>>, beverage |-> [price |-> BeveragePricePlaces],
     order |-> [total_price |-> MoneyPlaces], orderdetail |-> [price |-> MoneyPlaces]]

\* default_factory=uuid.uuid4: the identifiers a table's rows may take.
Ids ==
    [user |-> 1..MaxUsers, item |-> 1..MaxItems, beverage |-> 1..MaxBeverages,
     order |-> 1..MaxOrders, orderdetail |-> 1..MaxDetails]

EmptyTable == <<>>

Store ==
    [user |-> user, item |-> item, beverage |-> beverage, order |-> order,
     orderdetail |-> orderdetail]

Put(c, t, id, row) ==
    [c EXCEPT ![t] = [k \in DOMAIN c[t] \cup {id} |-> IF k = id THEN row ELSE c[t][k]]]

\* c without the rows named in the set gone of <<table, id>> pairs.
Remove(c, gone) ==
    [t \in TableNames |-> [k \in {j \in DOMAIN c[t] : <<t, j>> \notin gone} |-> c[t][k]]]

NotNullOK(c) ==
    \A t \in TableNames : \A id \in DOMAIN c[t] :
        \A col \in DOMAIN c[t][id] \ Nullable[t] : ~IsNull(c[t][id][col])

UniqueOK(c) ==
    \A t \in TableNames : \A col \in UniqueColumns[t] : \A a, b \in DOMAIN c[t] :
        a # b => c[t][a][col] # c[t][b][col]

ForeignKeysOK(c) ==
    \A fk \in ForeignKeys : \A id \in DOMAIN c[fk[1]] :
        LET x == c[fk[1]][id][fk[2]]
        IN IsNull(x) \/ x[1] \in DOMAIN c[fk[3]]

\* What the store answers to a transaction that would leave the tables as c.
Violation(c) ==
    IF ~NotNullOK(c) THEN "integrity_error"
    ELSE IF ~UniqueOK(c) THEN "conflict"
    ELSE IF ~ForeignKeysOK(c) THEN "reference_error"
    ELSE "ok"

RECURSIVE Doomed(_, _)
\* The rows a delete of the rows in gone takes with it, through the cascades.
Doomed(c, gone) ==
    LET more ==
            {<<r[2], k>> : r \in CascadeDelete, k \in UNION {DOMAIN c[t] : t \in TableNames}}
        hit == {x \in more :
                   /\ x[2] \in DOMAIN c[x[1]]
                   /\ \E r \in CascadeDelete : \E g \in gone :
                          /\ r[2] = x[1]
                          /\ r[1] = g[1]
                          /\ c[x[1]][x[2]][r[3]] = Some(g[2])}
    IN IF hit \subseteq gone THEN gone ELSE Doomed(c, gone \cup hit)

\* ------------------------------------------------------------------ rows

\* What a validated shape holds: every field, the unset ones at their default.
Validated(p, fields, defaults) ==
    [f \in fields |-> IF Has(p, f) THEN p[f] ELSE defaults[f]]

\* model_dump() without exclude_unset: the fields the payload set, and the
\* others at their defaults.
DumpWithDefaults(p, fields, defaults) ==
    [f \in (DOMAIN p \cap fields) \cup DOMAIN defaults |->
        IF Has(p, f) THEN p[f] ELSE defaults[f]]

\* model_dump(exclude_unset=True) of a validated update: the fields the payload
\* set, and none of the defaults.
Dump(p, fields, defaults) == Restrict(p, DOMAIN p \cap fields)

\* The values as the table t's columns hold them.
ToColumns(t, data) ==
    [f \in DOMAIN data |->
        IF f \in DOMAIN DecimalColumns[t]
        THEN Stored(data[f], DecimalColumns[t][f]) ELSE data[f]]

\* sqlmodel_update: set the columns that data names, leave the others.
SqlmodelUpdate(row, data) ==
    [col \in DOMAIN row |-> IF col \in DOMAIN data THEN data[col] ELSE row[col]]

get_password_hash(pw) == "hash:" \o pw

NewUser(p) ==
    LET d == Validated(p, UserBaseFields, UserBaseDefaults)
    IN [f \in UserFields |->
           IF f = "hashed_password" THEN Some(get_password_hash(p.password[1])) ELSE d[f]]

NewItem(p, owner) ==
    LET d == Validated(p, ItemBaseFields, ItemBaseDefaults)
    IN [f \in ItemFields |-> IF f = "owner_id" THEN Some(owner) ELSE d[f]]

NewBeverage(p) ==
    ToColumns("beverage", Validated(p, BeverageBaseFields, BeverageBaseDefaults))

NewOrder(p) == ToColumns("order", Validated(p, OrderBaseFields, OrderBaseDefaults))

NewOrderDetail(p) ==
    ToColumns("orderdetail", Validated(p, OrderDetailBaseFields, OrderDetailBaseDefaults))

UpdatedUser(row, p) ==
    LET data == Dump(p, UserUpdateFields, UserUpdateDefaults)
        extra == IF Has(data, "password") /\ ~IsNull(data.password)
                 THEN [hashed_password |-> Some(get_password_hash(data.password[1]))]
                 ELSE <<>>
    IN SqlmodelUpdate(SqlmodelUpdate(row, data), extra)

UpdatedRow(t, row, p, fields, defaults) ==
    SqlmodelUpdate(row, ToColumns(t, Dump(p, fields, defaults)))

\* UserPublic.model_validate(row): the fields UserPublic declares.
UserPublicOf(id) ==
    [f \in UserPublicFields |-> IF f = "id" THEN Some(id) ELSE user[id][f]]

RECURSIVE InIdOrder(_)
InIdOrder(S) ==
    IF S = {} THEN <<>>
    ELSE LET m == CHOOSE x \in S : \A y \in S : x <= y
         IN <<m>> \o InIdOrder(S \ {m})

UsersPublicOf ==
    LET ids == InIdOrder(DOMAIN user)
    IN [data |-> [k \in 1..Len(ids) |-> UserPublicOf(ids[k])], count |-> Len(ids)]

\* ------------------------------------------------------------ operations
\* A client sends one request at a time: request is the request in flight,
\* response the answer the client holds.  A request names the operation, the
\* row it addresses (create_item: the owner, the authenticated user; 0: none)
\* and its JSON payload.  A response repeats them (a create: with the new
\* row's id) and adds the outcome; a read's payload is the body it returns.

NoBody == <<>>

NoRequest == [op |-> "none", id |-> 0, payload |-> NoBody]

NoResponse == [op |-> "none", id |-> 0, payload |-> NoBody, result |-> "none"]

Send(op, id, p) ==
    /\ request = NoRequest
    /\ response = NoResponse
    /\ request' = [op |-> op, id |-> id, payload |-> p]
    /\ UNCHANGED <<tables, response, resource>>

Receive ==
    /\ response # NoResponse
    /\ response' = NoResponse
    /\ UNCHANGED <<tables, request, resource>>

Answer(id, p, res) ==
    /\ response' = [op |-> request.op, id |-> id, payload |-> p, result |-> res]
    /\ request' = NoRequest
    /\ UNCHANGED resource

Reject(id, res) == Answer(id, request.payload, res) /\ UNCHANGED tables

\* The transaction that leaves the tables as c: committed when the store finds
\* every constraint to hold, rolled back whole otherwise.
Commit(c, id, errId) ==
    LET v == Violation(c)
    IN IF v = "ok"
       THEN /\ user' = c.user
            /\ item' = c.item
            /\ beverage' = c.beverage
            /\ order' = c.order
            /\ orderdetail' = c.orderdetail
            /\ Answer(id, request.payload, "ok")
       ELSE Reject(errId, v)

Insert(t, valid, row) ==
    IF ~valid THEN Reject(0, "validation_error")
    ELSE \E id \in Ids[t] \ DOMAIN Store[t] : Commit(Put(Store, t, id, row), id, 0)

Update(t, valid, row) ==
    IF ~valid THEN Reject(request.id, "validation_error")
    ELSE IF request.id \notin DOMAIN Store[t] THEN Reject(request.id, "not_found")
    ELSE Commit(Put(Store, t, request.id, row), request.id, request.id)

Delete(t) ==
    IF request.id \notin DOMAIN Store[t] THEN Reject(request.id, "not_found")
    ELSE Commit(Remove(Store, Doomed(Store, {<<t, request.id>>})), request.id, request.id)

CreateUser ==
    /\ request.op = "create_user"
    /\ Insert("user", UserCreateValid(request.payload), NewUser(request.payload))

UpdateUser ==
    /\ request.op = "update_user"
    /\ Update("user", UserUpdateValid(request.payload),
              UpdatedUser(user[request.id], request.payload))

DeleteUser == request.op = "delete_user" /\ Delete("user")

ReadUsers ==
    /\ request.op = "read_users"
    /\ Answer(0, UsersPublicOf, "ok")
    /\ UNCHANGED tables

CreateItem ==
    /\ request.op = "create_item"
    /\ Insert("item", ItemCreateValid(request.payload), NewItem(request.payload, request.id))

UpdateItem ==
    /\ request.op = "update_item"
    /\ Update("item", ItemUpdateValid(request.payload),
              UpdatedRow("item", item[request.id], request.payload, ItemBaseFields,
                         ItemUpdateDefaults))

DeleteItem == request.op = "delete_item" /\ Delete("item")

CreateBeverage ==
    /\ request.op = "create_beverage"
    /\ Insert("beverage", BeverageCreateValid(request.payload), NewBeverage(request.payload))

UpdateBeverage ==
    /\ request.op = "update_beverage"
    /\ Update("beverage", BeverageUpdateValid(request.payload),
              UpdatedRow("beverage", beverage[request.id], request.payload, BeverageBaseFields,
                         BeverageUpdateDefaults))

DeleteBeverage == request.op = "delete_beverage" /\ Delete("beverage")

CreateOrder ==
    /\ request.op = "create_order"
    /\ Insert("order", OrderCreateValid(request.payload), NewOrder(request.payload))

UpdateOrder ==
    /\ request.op = "update_order"
    /\ Update("order", OrderUpdateValid(request.payload),
              UpdatedRow("order", order[request.id], request.payload, OrderBaseFields,
                         OrderUpdateDefaults))

DeleteOrder == request.op = "delete_order" /\ Delete("order")

CreateOrderDetail ==
    /\ request.op = "create_orderdetail"
    /\ Insert("orderdetail", OrderDetailCreateValid(request.payload),
              NewOrderDetail(request.payload))

UpdateOrderDetail ==
    /\ request.op = "update_orderdetail"
    /\ Update("orderdetail", OrderDetailUpdateValid(request.payload),
              UpdatedRow("orderdetail", orderdetail[request.id], request.payload,
                         OrderDetailBaseFields, OrderDetailUpdateDefaults))

DeleteOrderDetail == request.op = "delete_orderdetail" /\ Delete("orderdetail")

\* --------------------------------------------------------------- payloads

\* The JSON objects that supply any subset of the fields of a record of rs.
Objects(rs, fields) == {Restrict(r, S) : r \in rs, S \in SUBSET fields}

Emails == {"ann@x.io", "bob@x.io"}

GoodPassword == "correct-horse"

LongStatus == "shipped-and-delivered-and-returned-and-refunded-twice"

\* The relational specification's payloads: the keys, and no more of the other
\* fields than a shape requires.
KeyUserCreate == {[email |-> Some(e), password |-> Some(GoodPassword)] : e \in Emails}

KeyUserUpdate == {[email |-> Some(e)] : e \in Emails}

KeyItemCreate == {[title |-> Some("Tea")]}

KeyOrder == {[user_id |-> Some(u)] : u \in Ids.user}

KeyOrderDetailCreate ==
    {[order_id |-> Some(o), item_id |-> Some(i), quantity |-> Some(1)] :
        o \in Ids.order, i \in Ids.item}

KeyOrderDetailUpdate ==
    {[order_id |-> Some(o), item_id |-> Some(i)] : o \in Ids.order, i \in Ids.item}

\* The shape specification's payloads: every subset of the fields, each field
\* at values on both sides of its constraint.
UserValues ==
    [email : {Some("ann@x.io")} \cup {Some(e) : e \in MalformedEmails},
     is_active : {Some(FALSE)}, is_superuser : {Some(TRUE)}, full_name : {Some("Ann")},
     password : {Some("short"), Some(GoodPassword)}]

UserUpdateValues ==
    [email : {Null, Some("bob@x.io")}, is_active : {Some(FALSE)},
     is_superuser : {Some(TRUE)}, full_name : {Null},
     password : {Some("short"), Some(GoodPassword)}]

ItemValues == [title : {Some(""), Some("Tea"), Some("Mug")}, description : {Null, Some("hot")}]

ItemUpdateValues == [title : {Null, Some(""), Some("Mug")}, description : {Null, Some("hot")}]

BeverageValues ==
    [name : {Some(""), Some("Cola")}, description : {Some("fizzy")},
     price : {Some(<<-15, 1>>), Some(<<25, 1>>), Some(<<123456, 3>>), Some(<<1, 4>>)},
     inventory : {Some(-1), Some(5)}]

BeverageUpdateValues ==
    [name : {Some(""), Some("Soda")}, description : {Null},
     price : {Null, Some(<<-15, 1>>), Some(<<25, 1>>)},
     inventory : {Null, Some(-1), Some(0)}]

OrderValues ==
    [user_id : {Some(u) : u \in 1..2},
     total_price : {Some(<<-100, 2>>), Some(<<250, 2>>), Some(<<2505, 3>>)},
     status : {Some("paid"), Some(LongStatus)}]

OrderUpdateValues ==
    [user_id : {Null} \cup {Some(u) : u \in 1..2},
     total_price : {Null, Some(<<-100, 2>>), Some(<<250, 2>>)},
     status : {Null, Some("paid"), Some(LongStatus)}]

OrderDetailValues ==
    [order_id : {Some(o) : o \in 1..2}, item_id : {Some(i) : i \in 1..2},
     quantity : {Some(0), Some(1), Some(2)}, price : {Some(<<-100, 2>>), Some(<<250, 2>>)}]

OrderDetailUpdateValues ==
    [order_id : {Some(o) : o \in 1..2}, item_id : {Some(i) : i \in 1..2},
     quantity : {Null, Some(0), Some(2)}, price : {Null, Some(<<-100, 2>>), Some(<<250, 2>>)}]

UserCreateSamples == Objects(UserValues, UserCreateFields)

UserUpdateSamples == Objects(UserUpdateValues, UserUpdateFields)

ItemCreateSamples == Objects(ItemValues, ItemBaseFields)

ItemUpdateSamples == Objects(ItemUpdateValues, ItemBaseFields)

BeverageCreateSamples == Objects(BeverageValues, BeverageBaseFields)

BeverageUpdateSamples == Objects(BeverageUpdateValues, BeverageBaseFields)

OrderCreateSamples == Objects(OrderValues, OrderBaseFields)

OrderUpdateSamples == Objects(OrderUpdateValues, OrderBaseFields)

OrderDetailCreateSamples == Objects(OrderDetailValues, OrderDetailBaseFields)

OrderDetailUpdateSamples == Objects(OrderDetailUpdateValues, OrderDetailBaseFields)

\* --------------------------------------------------------- specifications

\* Spec: the store from empty, under every sequence of the operations on the
\* four related tables, with the key payloads.
Init ==
    /\ user = EmptyTable
    /\ item = EmptyTable
    /\ beverage = EmptyTable
    /\ order = EmptyTable
    /\ orderdetail = EmptyTable
    /\ request = NoRequest
    /\ response = NoResponse
    /\ resource = "any"

SendKeys ==
    \/ \E p \in KeyUserCreate : Send("create_user", 0, p)
    \/ \E id \in Ids.user, p \in KeyUserUpdate : Send("update_user", id, p)
    \/ \E id \in Ids.user : Send("delete_user", id, NoBody)
    \/ \E p \in KeyItemCreate, owner \in Ids.user : Send("create_item", owner, p)
    \/ \E id \in Ids.item : Send("delete_item", id, NoBody)
    \/ \E p \in KeyOrder : Send("create_order", 0, p)
    \/ \E id \in Ids.order, p \in KeyOrder : Send("update_order", id, p)
    \/ \E id \in Ids.order : Send("delete_order", id, NoBody)
    \/ \E p \in KeyOrderDetailCreate : Send("create_orderdetail", 0, p)
    \/ \E id \in Ids.orderdetail, p \in KeyOrderDetailUpdate : Send("update_orderdetail", id, p)
    \/ \E id \in Ids.orderdetail : Send("delete_orderdetail", id, NoBody)

Next ==
    \/ SendKeys
    \/ CreateUser
    \/ UpdateUser
    \/ DeleteUser
    \/ CreateItem
    \/ DeleteItem
    \/ CreateOrder
    \/ UpdateOrder
    \/ DeleteOrder
    \/ CreateOrderDetail
    \/ UpdateOrderDetail
    \/ DeleteOrderDetail
    \/ Receive

Spec == Init /\ [][Next]_vars

\* SpecShapes: a client of one resource (one table's endpoints) sends it every
\* payload of the shape samples; the rows its foreign keys need are there from
\* the start.
SeedUser == NewUser([email |-> Some("ann@x.io"), password |-> Some(GoodPassword)])

SeedItem == NewItem([title |-> Some("Tea")], 1)

SeedOrder == NewOrder([user_id |-> Some(1)])

InitShapes ==
    /\ resource \in TableNames
    /\ user = IF resource \in {"item", "order", "orderdetail"} THEN 1 :> SeedUser ELSE EmptyTable
    /\ item = IF resource = "orderdetail" THEN 1 :> SeedItem ELSE EmptyTable
    /\ order = IF resource = "orderdetail" THEN 1 :> SeedOrder ELSE EmptyTable
    /\ beverage = EmptyTable
    /\ orderdetail = EmptyTable
    /\ request = NoRequest
    /\ response = NoResponse

SendShapes ==
    \/ /\ resource = "user"
       /\ \/ \E p \in UserCreateSamples : Send("create_user", 0, p)
          \/ \E id \in Ids.user, p \in UserUpdateSamples :
                 Send("update_user", id, p)
          \/ Send("read_users", 0, NoBody)
    \/ /\ resource = "item"
       /\ \/ \E p \in ItemCreateSamples, owner \in DOMAIN user :
                 Send("create_item", owner, p)
          \/ \E id \in Ids.item, p \in ItemUpdateSamples :
                 Send("update_item", id, p)
    \/ /\ resource = "beverage"
       /\ \/ \E p \in BeverageCreateSamples :
                 Send("create_beverage", 0, p)
          \/ \E id \in Ids.beverage, p \in BeverageUpdateSamples :
                 Send("update_beverage", id, p)
          \/ \E id \in Ids.beverage : Send("delete_beverage", id, NoBody)
    \/ /\ resource = "order"
       /\ \/ \E p \in OrderCreateSamples : Send("create_order", 0, p)
          \/ \E id \in Ids.order, p \in OrderUpdateSamples :
                 Send("update_order", id, p)
    \/ /\ resource = "orderdetail"
       /\ \/ \E p \in OrderDetailCreateSamples :
                 Send("create_orderdetail", 0, p)
          \/ \E id \in Ids.orderdetail, p \in OrderDetailUpdateSamples :
                 Send("update_orderdetail", id, p)

NextShapes ==
    \/ SendShapes
    \/ CreateUser
    \/ UpdateUser
    \/ ReadUsers
    \/ CreateItem
    \/ UpdateItem
    \/ CreateBeverage
    \/ UpdateBeverage
    \/ DeleteBeverage
    \/ CreateOrder
    \/ UpdateOrder
    \/ CreateOrderDetail
    \/ UpdateOrderDetail
    \/ Receive

SpecShapes == InitShapes /\ [][NextShapes]_vars

\* ----------------------------------------------------------------- claims

Handled(op) == response.op = op

Supplied(p, f) == Has(p, f) /\ ~IsNull(p[f])

OwnedOrders(u) == {o \in DOMAIN order : order[o].user_id = Some(u)}

\* C1: deleting a user removes every Item the user owns, every Order of the
\* user and every OrderDetail of those Orders: whenever delete-user is handled
\* for a stored user u, none of these rows remains afterwards.
C1_DeleteUserRemovesOwnedRows ==
    [][(request.op = "delete_user" /\ request.id \in DOMAIN user) =>
           /\ \A i \in DOMAIN item :
                  item[i].owner_id = Some(request.id) => i \notin DOMAIN item'
           /\ \A o \in OwnedOrders(request.id) : o \notin DOMAIN order'
           /\ \A d \in DOMAIN orderdetail :
                  orderdetail[d].order_id[1] \in OwnedOrders(request.id)
                      => d \notin DOMAIN orderdetail']_vars

\* C2: in every reachable state every foreign key references a stored row:
\* Item.owner_id and Order.user_id a User, OrderDetail.order_id an Order and
\* OrderDetail.item_id an Item.
C2_ForeignKeysReferenceRows ==
    /\ \A i \in DOMAIN item : item[i].owner_id[1] \in DOMAIN user
    /\ \A o \in DOMAIN order : order[o].user_id[1] \in DOMAIN user
    /\ \A d \in DOMAIN orderdetail :
           /\ orderdetail[d].order_id[1] \in DOMAIN order
           /\ orderdetail[d].item_id[1] \in DOMAIN item

\* The case C2 names: a delete of a user whose Item an OrderDetail of another
\* user's Order references has been handled.
C2_Witness ==
    /\ Handled("delete_user")
    /\ response.id \in DOMAIN user
    /\ \E d \in DOMAIN orderdetail :
           /\ item[orderdetail[d].item_id[1]].owner_id = Some(response.id)
           /\ order[orderdetail[d].order_id[1]].user_id # Some(response.id)

StoredEmails == {user[u].email : u \in DOMAIN user}

\* C3: a create-user whose email is the email of a stored User is answered
\* with a conflict and leaves the tables unchanged, and no state holds two
\* Users with the same email.
C3_DuplicateEmailRejected ==
    /\ [](\A a, b \in DOMAIN user : a # b => user[a].email # user[b].email)
    /\ [][(/\ request.op = "create_user"
           /\ UserCreateValid(request.payload)
           /\ request.payload.email \in StoredEmails) =>
              (response'.result = "conflict" /\ UNCHANGED tables)]_vars

C3_Witness ==
    /\ Handled("create_user")
    /\ response.result = "conflict"
    /\ response.payload.email \in StoredEmails

\* The stored row keeps every column whose field the update payload omits.
OmittedKept(old, new, p, fields) == \A f \in fields \ DOMAIN p : new[f] = old[f]

\* C4: an update leaves unchanged every stored field that its payload omits,
\* for each of the five Update shapes (UserUpdate's password standing for the
\* stored hashed_password).
C4_OmittedFieldsUnchanged ==
    [][/\ (request.op = "update_user" /\ request.id \in DOMAIN user) =>
              /\ request.id \in DOMAIN user'
              /\ OmittedKept(user[request.id], user'[request.id], request.payload,
                             UserBaseFields)
              /\ ~Has(request.payload, "password") =>
                     user'[request.id].hashed_password = user[request.id].hashed_password
       /\ (request.op = "update_item" /\ request.id \in DOMAIN item) =>
              /\ request.id \in DOMAIN item'
              /\ OmittedKept(item[request.id], item'[request.id], request.payload,
                             ItemFields)
       /\ (request.op = "update_beverage" /\ request.id \in DOMAIN beverage) =>
              /\ request.id \in DOMAIN beverage'
              /\ OmittedKept(beverage[request.id], beverage'[request.id], request.payload,
                             BeverageBaseFields)
       /\ (request.op = "update_order" /\ request.id \in DOMAIN order) =>
              /\ request.id \in DOMAIN order'
              /\ OmittedKept(order[request.id], order'[request.id], request.payload,
                             OrderBaseFields)
       /\ (request.op = "update_orderdetail" /\ request.id \in DOMAIN orderdetail) =>
              /\ request.id \in DOMAIN orderdetail'
              /\ OmittedKept(orderdetail[request.id], orderdetail'[request.id],
                             request.payload, OrderDetailBaseFields)]_vars

\* A BeverageUpdate that omits price was applied to a Beverage whose price is
\* not the default.
C4_Witness ==
    /\ Handled("update_beverage")
    /\ response.result = "ok"
    /\ DOMAIN response.payload # {}
    /\ ~Has(response.payload, "price")
    /\ beverage[response.id].price # Some(0)

\* The fields a payload supplies satisfy the constraints the Update shape
\* declares for them.
SuppliedFieldsOK(op, p) ==
    CASE op = "update_user" ->
             \A f \in DOMAIN p \cap UserUpdateFields : UserUpdateFieldOK(f, p[f])
      [] op = "update_item" ->
             \A f \in DOMAIN p \cap ItemBaseFields : ItemUpdateFieldOK(f, p[f])
      [] op = "update_beverage" ->
             \A f \in DOMAIN p \cap BeverageBaseFields : BeverageUpdateFieldOK(f, p[f])
      [] op = "update_order" ->
             \A f \in DOMAIN p \cap OrderBaseFields : OrderUpdateFieldOK(f, p[f])
      [] op = "update_orderdetail" ->
             \A f \in DOMAIN p \cap OrderDetailBaseFields : OrderDetailUpdateFieldOK(f, p[f])

UpdateOps ==
    {"update_user", "update_item", "update_beverage", "update_order", "update_orderdetail"}

\* C5: every field of every Update shape is optional: an update payload that
\* supplies any subset of the fields, each within its constraint, passes
\* validation.
C5_UpdateFieldsOptional ==
    (response.op \in UpdateOps /\ SuppliedFieldsOK(response.op, response.payload))
        => response.result # "validation_error"

\* C6: the public shape of a stored User holds exactly id, email, is_active,
\* is_superuser and full_name, each as stored, and no hashed_password.
C6_PublicUserHidesHash ==
    Handled("read_users") =>
        /\ response.payload.count = Cardinality(DOMAIN user)
        /\ Len(response.payload.data) = response.payload.count
        /\ \A k \in 1..Len(response.payload.data) :
               LET pub == response.payload.data[k]
               IN /\ DOMAIN pub = {"id", "email", "is_active", "is_superuser", "full_name"}
                  /\ "hashed_password" \notin DOMAIN pub
                  /\ pub.id[1] \in DOMAIN user
                  /\ \A f \in DOMAIN pub \ {"id"} : pub[f] = user[pub.id[1]][f]

C6_Witness ==
    /\ Handled("read_users")
    /\ Len(response.payload.data) >= 1
    /\ \A u \in DOMAIN user : ~IsNull(user[u].hashed_password)

\* C7: an OrderDetail create or update payload with a quantity below 1 is
\* rejected, a create payload with quantity 1 (its other fields valid) is not,
\* and every stored OrderDetail has quantity >= 1.
C7_QuantityAtLeastOne ==
    /\ \A d \in DOMAIN orderdetail :
           ~IsNull(orderdetail[d].quantity) /\ orderdetail[d].quantity[1] >= 1
    /\ (/\ response.op \in {"create_orderdetail", "update_orderdetail"}
        /\ Supplied(response.payload, "quantity")
        /\ response.payload.quantity[1] < 1) => response.result = "validation_error"
    /\ (/\ Handled("create_orderdetail")
        /\ OrderDetailCreateRequired \subseteq DOMAIN response.payload
        /\ response.payload.quantity = Some(1)
        /\ \A f \in DOMAIN response.payload \ {"quantity"} :
               OrderDetailBaseFieldOK(f, response.payload[f]))
           => response.result # "validation_error"

\* An update with quantity 0 was sent for a stored OrderDetail.
C7_Witness ==
    /\ Handled("update_orderdetail")
    /\ response.id \in DOMAIN orderdetail
    /\ Supplied(response.payload, "quantity")
    /\ response.payload.quantity[1] = 0

NegativeDecimal(p, f) == Supplied(p, f) /\ p[f][1][1] < 0

\* C8: a create or update payload with a negative Beverage.price,
\* Order.total_price or OrderDetail.price is rejected by validation, and every
\* stored price is >= 0.
C8_PricesNonNegative ==
    /\ \A b \in DOMAIN beverage : beverage[b].price[1] >= 0
    /\ \A o \in DOMAIN order : order[o].total_price[1] >= 0
    /\ \A d \in DOMAIN orderdetail : orderdetail[d].price[1] >= 0
    /\ (/\ response.op \in {"create_beverage", "update_beverage", "create_orderdetail",
                            "update_orderdetail"}
        /\ NegativeDecimal(response.payload, "price")) => response.result = "validation_error"
    /\ (/\ response.op \in {"create_order", "update_order"}
        /\ NegativeDecimal(response.payload, "total_price"))
           => response.result = "validation_error"

EmptyString(p, f) == Supplied(p, f) /\ Len(p[f][1]) < 1

\* C9: an ItemCreate payload whose title, and a BeverageCreate payload whose
\* name, has fewer than 1 character is rejected, and no stored Item has an
\* empty title and no stored Beverage an empty name.
C9_TitleAndNameNotEmpty ==
    /\ (Handled("create_item") /\ EmptyString(response.payload, "title"))
           => (response.result = "validation_error" /\ response.id = 0)
    /\ (Handled("create_beverage") /\ EmptyString(response.payload, "name"))
           => (response.result = "validation_error" /\ response.id = 0)
    /\ \A i \in DOMAIN item : ~IsNull(item[i].title) /\ Len(item[i].title[1]) >= 1
    /\ \A b \in DOMAIN beverage : ~IsNull(beverage[b].name) /\ Len(beverage[b].name[1]) >= 1

C9_Witness ==
    /\ Handled("create_item")
    /\ EmptyString(response.payload, "title")
    /\ ItemCreateRequired \subseteq DOMAIN response.payload

\* C10: every stored Beverage has a non-null inventory >= 0, and a create or
\* update payload that supplies a negative inventory is rejected.
C10_InventoryNonNegative ==
    /\ \A b \in DOMAIN beverage :
           ~IsNull(beverage[b].inventory) /\ beverage[b].inventory[1] >= 0
    /\ (/\ response.op \in {"create_beverage", "update_beverage"}
        /\ Supplied(response.payload, "inventory")
        /\ response.payload.inventory[1] < 0) => response.result = "validation_error"

\* An update that omits inventory was applied to a stored Beverage.
C10_Witness ==
    /\ Handled("update_beverage")
    /\ response.result = "ok"
    /\ DOMAIN response.payload # {}
    /\ ~Has(response.payload, "inventory")

====
